---------------------------- MODULE Spec2Model ----------------------------
(***************************************************************************)
(* Request-governance layer of the Insomnia partner SDK:                   *)
(*   - the rate limiter        src/src/services/rateLimiter.js             *)
(*   - the TTL cache           src/src/services/cache.js (over node-cache) *)
(*   - the governed operations src/src/services/sleepData.js               *)
(*                                                                         *)
(* Time is Date.now() in milliseconds.  Strings that the code inspects     *)
(* (cache keys) are sequences of one-character strings; opaque data are    *)
(* plain strings.  null is Null for numbers and "null" for data.           *)
(***************************************************************************)
EXTENDS Integers, Sequences, FiniteSets, TLC

VARIABLES
  now,               \* Date.now()
  ticks,             \* how often the clock has been advanced (bounds the run)
  config,            \* config.rateLimit, read once at module load
  rateLimiterState,  \* rateLimiter.js: the module's state object
  lastResult,        \* the object the latest checkRateLimit() returned
  nCalls,            \* number of checkRateLimit() calls made so far
  sinceReset,        \* history: the calls made since the limiter was last reset
  cache,             \* cache.js: the NodeCache instance's entries, key -> [v, t]
  cacheStats,        \* cache.js: cacheStats
  lastCacheCall,     \* the latest call of the cache module and what it returned
  written,           \* history: per namespaced key, the latest successful set
                   \* (its value, expiry, and the namespace and key it was given)
  pending,           \* cache.js: the getCachedData calls awaiting their fallback
  ops,               \* sleepData.js: the operations in flight, by slot
  done,              \* the operation that finished last, and how
  started,           \* number of operations started so far
  sdk                \* index.js: isInitialized and sdkInstance, with their history

limiterVars == <<config, rateLimiterState, lastResult, nCalls, sinceReset>>
clockVars == <<now, ticks>>
cacheVars == <<cache, cacheStats, lastCacheCall, written, pending>>
govVars == <<ops, done, started, sdk>>
vars == <<now, ticks, config, rateLimiterState, lastResult, nCalls, sinceReset,
          cache, cacheStats, lastCacheCall, written, pending, ops, done, started,
          sdk>>

---------------------------------------------------------------------------
(* Bounds of the model *)

\* config.rateLimit.maxRequestsPerMinute is drawn from 0..MaxConfiguredRequests
MaxConfiguredRequests == 2
\* checkRateLimit() calls in one run
MaxCalls == 4
\* clock advances in one run
MaxTicks == 3
\* getCachedData/setCachedData calls in one run of the cache
MaxCacheCalls == 3
\* clock advances in one run of the cache
MaxCacheTicks == 2
\* governed operations in flight at once, and started in one run
MaxInFlight == 2
MaxOps == 2
\* clock advances in one run of the governed operations
MaxGovTicks == 1
\* initialize() calls in one run of the SDK
MaxInitializes == 2
\* nested calls the JavaScript stack holds before it throws a RangeError
StackLimit == 3
\* getCachedData calls awaiting their fallback at once
MaxFallbacks == 2

---------------------------------------------------------------------------
(* Rate limiter: src/src/services/rateLimiter.js *)

Null == -1

WindowSize == 60000
BlockDuration == 300000

\* JavaScript truthiness of a number-or-null
Truthy(x) == x # Null /\ x # 0

InitialStats == [totalRequests |-> 0, blockedRequests |-> 0, successfulRequests |-> 0]

InitialLimiterState(t) ==
  [requestCount |-> 0, lastResetTime |-> t, blockedUntil |-> Null,
   stats |-> InitialStats]

\* a burst limit equal to the window cap
BurstReached_AtCap(st, cfg) == st.requestCount >= cfg.maxRequestsPerMinute

\* burstLimit = maxRequestsPerMinute * 1.5; requestCount >= burstLimit in integers
BurstReached(st, cfg) == 2 * st.requestCount >= 3 * cfg.maxRequestsPerMinute

IsBlocked(st, t) == Truthy(st.blockedUntil) /\ t < st.blockedUntil

\* a window that never ends
WindowElapsed_Never(st, t) == FALSE

WindowElapsed(st, t) == t - st.lastResetTime > WindowSize

\* a window reset that keeps the count
ResetWindow_KeepsCount(st, t) ==
  IF WindowElapsed(st, t) THEN [st EXCEPT !.lastResetTime = t] ELSE st

\* "Reset counters if window has passed"
ResetWindow(st, t) ==
  IF WindowElapsed(st, t)
  THEN [st EXCEPT !.requestCount = 0, !.lastResetTime = t]
  ELSE st

\* mutant: the blocked branch forgets retryAfter
BlockedResponse_NoRetryAfter(st, t) ==
  [state  |-> [st EXCEPT !.stats.blockedRequests = @ + 1],
   result |-> [allowed |-> FALSE, remaining |-> 0,
               reset |-> st.blockedUntil - t,
               retryAfter |-> Null]]

BlockedResponse(st, t) ==
  [state  |-> [st EXCEPT !.stats.blockedRequests = @ + 1],
   result |-> [allowed |-> FALSE, remaining |-> 0,
               reset |-> st.blockedUntil - t,
               retryAfter |-> st.blockedUntil - t]]

\* a window-cap refusal that tells the caller when to retry
LimitedResponse_WithRetryAfter(st, t) ==
  [state  |-> [st EXCEPT !.stats.blockedRequests = @ + 1],
   result |-> [allowed |-> FALSE, remaining |-> 0,
               reset |-> WindowSize - (t - st.lastResetTime),
               retryAfter |-> WindowSize - (t - st.lastResetTime)]]

LimitedResponse(st, t) ==
  [state  |-> [st EXCEPT !.stats.blockedRequests = @ + 1],
   result |-> [allowed |-> FALSE, remaining |-> 0,
               reset |-> WindowSize - (t - st.lastResetTime),
               retryAfter |-> Null]]

\* an allowed result that reports what remained before this request
AllowedResponse_BeforeIncrement(st, cfg, t) ==
  LET s2 == [st EXCEPT !.requestCount = @ + 1,
                       !.stats.successfulRequests = @ + 1,
                       !.stats.totalRequests = @ + 1]
  IN [state  |-> s2,
      result |-> [allowed |-> TRUE,
                  remaining |-> cfg.maxRequestsPerMinute - st.requestCount,
                  reset |-> WindowSize - (t - s2.lastResetTime),
                  retryAfter |-> Null]]

\* an allowed result whose request is not counted in the window
AllowedResponse_NotCounted(st, cfg, t) ==
  LET s2 == [st EXCEPT !.stats.successfulRequests = @ + 1,
                       !.stats.totalRequests = @ + 1]
  IN [state  |-> s2,
      result |-> [allowed |-> TRUE,
                  remaining |-> cfg.maxRequestsPerMinute - s2.requestCount,
                  reset |-> WindowSize - (t - s2.lastResetTime),
                  retryAfter |-> Null]]

AllowedResponse(st, cfg, t) ==
  LET s2 == [st EXCEPT !.requestCount = @ + 1,
                       !.stats.successfulRequests = @ + 1,
                       !.stats.totalRequests = @ + 1]
  IN [state  |-> s2,
      result |-> [allowed |-> TRUE,
                  remaining |-> cfg.maxRequestsPerMinute - s2.requestCount,
                  reset |-> WindowSize - (t - s2.lastResetTime),
                  retryAfter |-> Null]]

\* checkRateLimit(identifier) run at time t on state st: the state it leaves, the
\* object it returns, and how many times it called itself.  The burst branch
\* sets blockedUntil and calls itself.
RECURSIVE CheckRateLimit(_, _, _)

\* mutant: the window cap is compared with > instead of >=
CheckRateLimit_OffByOne(st, cfg, t) ==
  IF IsBlocked(st, t)
  THEN BlockedResponse(st, t)
  ELSE LET w == ResetWindow(st, t) IN
       IF BurstReached(w, cfg)
       THEN CheckRateLimit([w EXCEPT !.blockedUntil = t + BlockDuration], cfg, t)
       ELSE IF w.requestCount > cfg.maxRequestsPerMinute
            THEN LimitedResponse(w, t)
            ELSE AllowedResponse(w, cfg, t)

\* mutant: no refusal at the window cap
CheckRateLimit_NoCap(st, cfg, t) ==
  IF IsBlocked(st, t)
  THEN BlockedResponse(st, t)
  ELSE LET w == ResetWindow(st, t) IN
       IF BurstReached(w, cfg)
       THEN CheckRateLimit([w EXCEPT !.blockedUntil = t + BlockDuration], cfg, t)
       ELSE AllowedResponse(w, cfg, t)

\* a block that is over when it is set
BurstBlock_NoDuration(w, t) == [w EXCEPT !.blockedUntil = t]

\* rateLimiterState.blockedUntil = currentTime + RATE_LIMITER_CONFIG.blockDuration
BurstBlock(w, t) == [w EXCEPT !.blockedUntil = t + BlockDuration]

\* what a call leaves when the stack is exhausted: it throws, nothing is returned
StackExhausted(st) ==
  [state  |-> st,
   result |-> [allowed |-> FALSE, remaining |-> Null, reset |-> Null,
               retryAfter |-> Null]]

\* r, reached after depth self-invocations
AtDepth(r, depth) == [state |-> r.state, result |-> r.result, depth |-> depth]

\* the call at nesting depth depth: blocked branch, window reset, burst branch
\* (which calls itself), window cap, allow
RECURSIVE CheckRateLimitNested(_, _, _, _)
CheckRateLimitNested(st, cfg, t, depth) ==
  IF depth > StackLimit
  THEN AtDepth(StackExhausted(st), depth)
  ELSE IF IsBlocked(st, t)
  THEN AtDepth(BlockedResponse(st, t), depth)
  ELSE LET w == ResetWindow(st, t) IN
       IF BurstReached(w, cfg)
       THEN CheckRateLimitNested(BurstBlock(w, t), cfg, t, depth + 1)
       ELSE IF w.requestCount >= cfg.maxRequestsPerMinute
            THEN AtDepth(LimitedResponse(w, t), depth)
            ELSE AtDepth(AllowedResponse(w, cfg, t), depth)

CheckRateLimit(st, cfg, t) == CheckRateLimitNested(st, cfg, t, 0)

\* a reset that keeps the window's count
ResetRateLimiter_KeepsCount(st, clearStats, t) ==
  [requestCount |-> st.requestCount, lastResetTime |-> t, blockedUntil |-> Null,
   stats |-> IF clearStats THEN InitialStats ELSE st.stats]

\* resetRateLimiter(clearStats) run at time t
ResetRateLimiter(st, clearStats, t) ==
  [requestCount |-> 0, lastResetTime |-> t, blockedUntil |-> Null,
   stats |-> IF clearStats THEN InitialStats ELSE st.stats]

\* getRateLimiterStats(): the statistics, with isBlocked: !!blockedUntil
GetRateLimiterStats(st) ==
  [totalRequests |-> st.stats.totalRequests,
   blockedRequests |-> st.stats.blockedRequests,
   successfulRequests |-> st.stats.successfulRequests,
   currentRequests |-> st.requestCount,
   isBlocked |-> Truthy(st.blockedUntil),
   blockedUntil |-> st.blockedUntil]

---------------------------------------------------------------------------
(* Cache: src/src/services/cache.js over a NodeCache instance *)

StdTTL == 3600
MaxKeys == 1000

\* data values; Undefined is JavaScript's undefined, NullValue its null
Undefined == "undefined"
NullValue == "null"

DefaultNamespace == <<"d", "e", "f", "a", "u", "l", "t">>

\* getNamespacedKey(namespace, key): `${namespace}:${key}`
GetNamespacedKey(namespace, key) == namespace \o <<":">> \o key

\* options.namespace || 'default' (an empty or missing namespace is falsy)
NamespaceOrDefault(namespace) ==
  IF namespace = <<>> THEN DefaultNamespace ELSE namespace

\* ttl || cache.options.stdTTL (0 stands for an omitted ttl), in seconds
TtlOrDefault(ttl) == IF ttl = 0 THEN StdTTL ELSE ttl

\* a cache whose entries never expire
NodeCacheExpired_Never(entry, t) == FALSE

\* NodeCache: an entry is dropped on access once its expiry time t is in the past
NodeCacheExpired(entry, t) == entry.t # 0 /\ entry.t < t

Without(store, keys) == [k \in DOMAIN store \ keys |-> store[k]]

With(store, k, entry) ==
  [x \in DOMAIN store \cup {k} |-> IF x = k THEN entry ELSE store[x]]

\* mutant: a hit does not check the entry's expiry
NodeCacheGet_NoExpiry(store, k, t) ==
  IF k \notin DOMAIN store
  THEN [store |-> store, value |-> Undefined]
  ELSE [store |-> store, value |-> store[k].v]

\* NodeCache.get(key) at time t: the value or Undefined; an expired entry is
\* deleted (deleteOnExpire)
NodeCacheGet(store, k, t) ==
  IF k \notin DOMAIN store
  THEN [store |-> store, value |-> Undefined]
  ELSE IF NodeCacheExpired(store[k], t)
       THEN [store |-> Without(store, {k}), value |-> Undefined]
       ELSE [store |-> store, value |-> store[k].v]

\* NodeCache.set(key, value, ttl) at time t: throws when maxKeys is reached
NodeCacheSet(store, k, v, ttl, t) ==
  IF Cardinality(DOMAIN store) >= MaxKeys
  THEN [store |-> store, threw |-> TRUE]
  ELSE [store |-> With(store, k, [v |-> v, t |-> t + ttl * 1000]), threw |-> FALSE]

\* NodeCache.ttl(key, ttl) at time t: a live entry gets the expiry t + ttl
NodeCacheTtl(store, k, ttl, t) ==
  IF k \in DOMAIN store /\ ~NodeCacheExpired(store[k], t)
  THEN [store EXCEPT ![k].t = t + ttl * 1000]
  ELSE Without(store, {k})

\* a cache-module call's outcome: the entries and counters after it, the value it
\* returned, whether it ended by throwing
Outcome(store, stats, value, threw) ==
  [store |-> store, stats |-> stats, value |-> value, threw |-> threw]

\* a lookup that counts a hit whatever it finds
GetCachedData_AlwaysHit(store, stats, key, refreshTTL, namespace, t) ==
  IF key = <<>>
  THEN Outcome(store, stats, Undefined, TRUE)
  ELSE LET nk == GetNamespacedKey(NamespaceOrDefault(namespace), key)
           g  == NodeCacheGet(store, nk, t)
       IN Outcome(g.store, [stats EXCEPT !.hits = @ + 1],
                  IF g.value # Undefined THEN g.value ELSE NullValue, FALSE)

\* getCachedData(key, {refreshTTL, namespace}) without fallback, at time t
GetCachedData(store, stats, key, refreshTTL, namespace, t) ==
  IF key = <<>>
  THEN Outcome(store, stats, Undefined, TRUE)
  ELSE LET nk == GetNamespacedKey(NamespaceOrDefault(namespace), key)
           g  == NodeCacheGet(store, nk, t)
       IN IF g.value # Undefined
          THEN Outcome(IF refreshTTL THEN NodeCacheTtl(g.store, nk, StdTTL, t)
                                     ELSE g.store,
                       [stats EXCEPT !.hits = @ + 1], g.value, FALSE)
          ELSE Outcome(g.store, [stats EXCEPT !.misses = @ + 1], NullValue, FALSE)

\* a set that stores whatever it is given
SetCachedData_StoresUndefined(store, stats, key, data, ttl, namespace, t) ==
  IF key = <<>>
  THEN Outcome(store, stats, Undefined, TRUE)
  ELSE LET nk == GetNamespacedKey(NamespaceOrDefault(namespace), key)
           r  == NodeCacheSet(store, nk, data, TtlOrDefault(ttl), t)
       IN IF r.threw
          THEN Outcome(store, stats, Undefined, TRUE)
          ELSE Outcome(r.store, [stats EXCEPT !.sets = @ + 1], "true", FALSE)

\* setCachedData(key, data, ttl, {namespace}) at time t
SetCachedData(store, stats, key, data, ttl, namespace, t) ==
  IF key = <<>> \/ data = Undefined
  THEN Outcome(store, stats, Undefined, TRUE)
  ELSE LET nk == GetNamespacedKey(NamespaceOrDefault(namespace), key)
           r  == NodeCacheSet(store, nk, data, TtlOrDefault(ttl), t)
       IN IF r.threw
          THEN Outcome(store, stats, Undefined, TRUE)
          ELSE Outcome(r.store, [stats EXCEPT !.sets = @ + 1], "true", FALSE)

\* key.startsWith(prefix)
StartsWith(key, prefix) ==
  Len(key) >= Len(prefix) /\ SubSeq(key, 1, Len(prefix)) = prefix

\* a clearing that deletes every key which holds `${namespace}:` anywhere
NamespaceKeys_Includes(store, namespace) ==
  {k \in DOMAIN store :
     \E i \in 1..Len(k) : StartsWith(SubSeq(k, i, Len(k)), namespace \o <<":">>)}

\* the keys clearNamespaceCache(namespace) deletes
NamespaceKeys(store, namespace) ==
  {k \in DOMAIN store : StartsWith(k, namespace \o <<":">>)}

\* clearNamespaceCache(namespace): returns the number of keys deleted
ClearNamespaceCache(store, stats, namespace) ==
  LET keysToDelete == NamespaceKeys(store, namespace)
      deleteCount  == Cardinality(keysToDelete)
  IN [store |-> Without(store, keysToDelete),
      stats |-> [stats EXCEPT !.deletes = @ + deleteCount],
      count |-> deleteCount]

\* validateCacheKey(key).  A key is [type, chars]: typeof key, and its characters
\* when it is a string.
KeyMaxLength == 256

\* the characters of /^[a-zA-Z0-9_\-.:]+$/
KeyCharacters ==
  {"a", "b", "c", "d", "e", "f", "g", "h", "i", "j", "k", "l", "m", "n",
   "o", "p", "q", "r", "s", "t", "u", "v", "w", "x", "y", "z"}
  \cup
  {"A", "B", "C", "D", "E", "F", "G", "H", "I", "J", "K", "L", "M", "N",
   "O", "P", "Q", "R", "S", "T", "U", "V", "W", "X", "Y", "Z"}
  \cup {"0", "1", "2", "3", "4", "5", "6", "7", "8", "9"}
  \cup {"_", "-", ".", ":"}

\* a validation that rejects a key of the maximum length
ValidateCacheKey_OffByOne(key) ==
  IF key.type # "string" \/ key.chars = <<>>
  THEN "Invalid cache key: must be a non-empty string"
  ELSE IF Len(key.chars) >= KeyMaxLength
       THEN "Cache key too long: maximum 256 characters"
       ELSE IF \E i \in 1..Len(key.chars) : key.chars[i] \notin KeyCharacters
            THEN "Cache key contains invalid characters"
            ELSE Undefined

\* the message of the error thrown, or Undefined when it returns
ValidateCacheKey(key) ==
  IF key.type # "string" \/ key.chars = <<>>
  THEN "Invalid cache key: must be a non-empty string"
  ELSE IF Len(key.chars) > KeyMaxLength
       THEN "Cache key too long: maximum 256 characters"
       ELSE IF \E i \in 1..Len(key.chars) : key.chars[i] \notin KeyCharacters
            THEN "Cache key contains invalid characters"
            ELSE Undefined

\* NodeCache's periodic check (checkperiod): expired entries are deleted
NodeCacheCheckData(store, t) ==
  Without(store, {k \in DOMAIN store : NodeCacheExpired(store[k], t)})

\* NodeCache.getTtl(key) at time t: the expiry time of a live entry, Null
\* (undefined) otherwise; an expired entry is deleted (deleteOnExpire)
NodeCacheGetTtl(store, k, t) ==
  IF k \in DOMAIN store /\ ~NodeCacheExpired(store[k], t)
  THEN [store |-> store, value |-> store[k].t]
  ELSE [store |-> Without(store, {k}), value |-> Null]

\* the keys for which clearExpiredCache's callback runs cache.del(key) and
\* cacheStats.deletes++: cache.getTtl(key) && cache.getTtl(key) < Date.now()
SweptKeys(store, t) ==
  {k \in DOMAIN store :
     LET first  == NodeCacheGetTtl(store, k, t)
         second == NodeCacheGetTtl(first.store, k, t)
     IN Truthy(first.value) /\ second.value < t}

\* clearExpiredCache() at time t.  It hands its loop to cache.keys as a callback;
\* keysCallsBack tells whether the installed node-cache calls it (the
\* callback API, up to 4.x) or ignores it (5.x, where keys() takes no argument).
ClearExpiredCache(store, stats, t, keysCallsBack) ==
  IF ~keysCallsBack
  THEN [store |-> store, stats |-> stats]
  ELSE LET afterGetTtl ==
             Without(store, {k \in DOMAIN store : NodeCacheExpired(store[k], t)})
           swept == SweptKeys(store, t)
       IN [store |-> Without(afterGetTtl, swept),
           stats |-> [stats EXCEPT !.deletes = @ + Cardinality(swept)]]

EmptyStore == [k \in {} |-> [v |-> Undefined, t |-> 0]]

\* options.fallback of a getCachedData call
\* a fallback whose result is stored in the default namespace
FallbackStore_DefaultNamespace(store, stats, key, namespace, fallbackValue, t) ==
  SetCachedData(store, stats, key, fallbackValue, 0, <<>>, t)

\* await setCachedData(key, fallbackValue, undefined, { namespace: options.namespace })
FallbackStore(store, stats, key, namespace, fallbackValue, t) ==
  SetCachedData(store, stats, key, fallbackValue, 0, namespace, t)

\* what a getCachedData call with a fallback has in hand while it awaits
\* options.fallback(): invoked counts the invocations of the fallback, raced
\* tells that another call was awaiting its fallback for the same entry meanwhile
NoFallback ==
  [state |-> "none", key |-> <<>>, namespace |-> <<>>, invoked |-> 0, raced |-> FALSE]

\* a lookup that joins the wait of a call already awaiting the entry's fallback
InvokesFallback_SingleFlight(p, nk, fallback, value) ==
  /\ fallback
  /\ value = NullValue
  /\ \A i \in 1..MaxFallbacks :
        p[i].state = "awaiting" =>
          GetNamespacedKey(NamespaceOrDefault(p[i].namespace), p[i].key) # nk

\* after a miss: if (options.fallback) { await options.fallback() ... }, whatever
\* the calls p that already await a fallback
InvokesFallback(p, nk, fallback, value) == fallback /\ value = NullValue

\* no call awaits a fallback
NonePending == [i \in 1..MaxFallbacks |-> NoFallback]

\* the calls that await a fallback for the entry nk
AwaitingFor(p, nk) ==
  {i \in 1..MaxFallbacks :
     /\ p[i].state = "awaiting"
     /\ GetNamespacedKey(NamespaceOrDefault(p[i].namespace), p[i].key) = nk}

\* the call has not returned yet
Pending == "pending"
\* options.fallback() rejected
Rejected == "rejected"

\* op, key, data: the call and its arguments; value, count, threw: how it ended; afterRefresh: whether a
\* refreshTTL read had touched the key's entry since it was set; slot, raced: the
\* awaiting call a step belongs to, and whether it shared its wait
NoCall ==
  [op |-> "none", key |-> <<>>, data |-> Undefined, fallback |-> FALSE,
   value |-> Undefined, count |-> 0, threw |-> FALSE, afterRefresh |-> FALSE,
   slot |-> 0, raced |-> FALSE]

CacheAtLoad ==
  /\ cache = EmptyStore
  /\ cacheStats = [hits |-> 0, misses |-> 0, sets |-> 0, deletes |-> 0]
  /\ lastCacheCall = NoCall
  /\ written = EmptyStore
  /\ pending = NonePending

---------------------------------------------------------------------------
(* Governed operations: src/src/services/sleepData.js *)

FetchTtl == 21600
RetryDefault == 3

\* what a rejected remote call throws.  axios: axios.isAxiosError(error);
\* status: error.response?.status (Null: no response); code: error.code
AxiosStatus(status) == [kind |-> "axios", status |-> status, code |-> "none", type |-> "none"]
AxiosTimeout == [kind |-> "axios", status |-> Null, code |-> "ECONNABORTED", type |-> "none"]
RawAbort == [kind |-> "error", status |-> Null, code |-> "ECONNABORTED", type |-> "none"]
PlainError == [kind |-> "error", status |-> Null, code |-> "none", type |-> "none"]
\* new ApiError(message, type, status), thrown inside an operation
ThrownApiError(type, status) == [kind |-> "ApiError", status |-> status, code |-> "none", type |-> type]

\* the typed errors: new ApiError(..., type, status), NetworkError, AuthError
ApiError(type, status) == [class |-> "ApiError", type |-> type, status |-> status]
NetworkError == [class |-> "NetworkError", type |-> "network_error", status |-> 503]
AuthError == [class |-> "AuthError", type |-> "auth_error", status |-> 401]
NoError == [class |-> "none", type |-> "none", status |-> 0]

\* status || 500 in ApiError's constructor
StatusOrDefault(status) == IF Truthy(status) THEN status ELSE 500

\* a handler that rethrows what it does not recognise
HandleApiError_RawRethrow(error) ==
  IF error.kind = "axios"
  THEN CASE error.status = 400 -> ApiError("bad_request", 400)
         [] error.status = 401 -> AuthError
         [] error.status = 404 -> ApiError("not_found", 404)
         [] error.status = 429 -> ApiError("rate_limit_error", 429)
         [] OTHER -> ApiError("http_error", StatusOrDefault(error.status))
  ELSE IF error.kind = "ApiError"
       THEN ApiError(error.type, StatusOrDefault(error.status))
       ELSE [class |-> "Error", type |-> error.code, status |-> 0]

\* handleApiError(error): what it throws
HandleApiError(error) ==
  IF error.kind = "axios"
  THEN CASE error.status = 400 -> ApiError("bad_request", 400)
         [] error.status = 401 -> AuthError
         [] error.status = 404 -> ApiError("not_found", 404)
         [] error.status = 429 -> ApiError("rate_limit_error", 429)
         [] OTHER -> ApiError("http_error", StatusOrDefault(error.status))
  ELSE IF error.kind = "ApiError"
       THEN ApiError(error.type, StatusOrDefault(error.status))
       ELSE IF error.code = "ECONNABORTED"
            THEN NetworkError
            ELSE ApiError("unknown_error", 500)

\* fetchUserSleepData called with a userId that holds a space
FetchUserWithSpace == "fetchUserSleepData('a b')"

\* the calls made: each operation with userId '1' and the default options, and
\* fetchUserSleepData also with the userId 'a b'
OperationNames ==
  {"fetchUserSleepData", "fetchAllSleepData", "updateSleepData",
   "fetchUserSleepStats", "deleteSleepData", "batchDeleteSleepData",
   FetchUserWithSpace}

\* warmUpCache's call of fetchAllSleepData, which differs from the default call
\* in its limit
WarmUpFetch == "fetchAllSleepData({ limit: 100 })"

\* the operations that read and write the cache
Fetches == {"fetchUserSleepData", "fetchAllSleepData", WarmUpFetch, FetchUserWithSpace}

\* `userSleepData_${userId}` for userId '1' and 'a b';
\* `allSleepData_page${page}_limit${limit}` for the defaults page 1, limit 10
CacheKeyOf(name) ==
  IF name = "fetchUserSleepData"
  THEN <<"u","s","e","r","S","l","e","e","p","D","a","t","a","_","1">>
  ELSE IF name = FetchUserWithSpace
  THEN <<"u","s","e","r","S","l","e","e","p","D","a","t","a","_","a"," ","b">>
  ELSE IF name = "fetchAllSleepData"
       THEN <<"a","l","l","S","l","e","e","p","D","a","t","a","_",
              "p","a","g","e","1","_","l","i","m","i","t","1","0">>
       ELSE IF name = WarmUpFetch
            THEN <<"a","l","l","S","l","e","e","p","D","a","t","a","_",
                   "p","a","g","e","1","_","l","i","m","i","t","1","0","0">>
            ELSE <<>>

\* how often the operation's remote call is tried: retryRequest(fn) wraps it in
\* fetchAllSleepData and deleteSleepData
AttemptsOf(name) ==
  IF name \in {"fetchAllSleepData", WarmUpFetch, "deleteSleepData"}
  THEN RetryDefault
  ELSE 1

\* !checkRateLimit(): the call returns an object, and an object is truthy
LimiterRefuses(result) == FALSE

\* cachedData?.timestamp > Date.now() - 21600 * 1000, where cachedData is the
\* promise the async getCachedData returns: it has no timestamp property, and
\* undefined > n is false
CachedDataTimestamp(promise) == Undefined

ServedFromCache(promise, t) ==
  IF CachedDataTimestamp(promise) = Undefined
  THEN FALSE
  ELSE CachedDataTimestamp(promise) > t - FetchTtl * 1000

\* a batch deletion that asks for no confirmation
ConfirmationMissing_Never(name, forceDelete) == FALSE

\* no confirmation given: if (!forceDelete) throw ..., in batchDeleteSleepData only
ConfirmationMissing(name, forceDelete) ==
  name = "batchDeleteSleepData" /\ ~forceDelete

\* a fetch that caches its response with the cache's default TTL
CacheResponse_DefaultTtl(store, stats, name, data, t) ==
  SetCachedData(store, stats, CacheKeyOf(name), data, 0, <<>>, t)

\* setCachedData(cacheKey, response.data, 21600)
CacheResponse(store, stats, name, data, t) ==
  SetCachedData(store, stats, CacheKeyOf(name), data, FetchTtl, <<>>, t)

\* a retry loop that runs once more
LastAttempt_OneMore(op) == op.remoteCalls - 1 = AttemptsOf(op.name)

\* retryRequest's catch: if (i === retries - 1) throw error, i counting the
\* attempts made before this one
LastAttempt(op) == op.remoteCalls - 1 = AttemptsOf(op.name) - 1

\* error.message of a typed error, as its constructor call gives it (a 400 or an
\* unlisted status may carry the response body's message instead)
MessageOf(error) ==
  CASE error.type = "bad_request" -> "Invalid request parameters"
    [] error.type = "auth_error" -> "Invalid API key"
    [] error.type = "not_found" -> "Requested resource not found"
    [] error.type = "rate_limit_error" -> "Too many requests"
    [] error.type = "http_error" -> "HTTP Error"
    [] error.type = "network_error" -> "No response from server"
    [] error.type = "confirmation_required" -> "Deletion requires confirmation"
    [] OTHER -> "Unknown API error"

\* error.code: ApiError's constructor sets name, type and status, and no code
CodeOf(error) == IF "code" \in DOMAIN error THEN error.code ELSE Undefined

\* SleepSDK._formatError(error) at time t; config has no docsUrl
FormatError(error, t) ==
  [code |-> IF CodeOf(error) \notin {Undefined, ""} THEN CodeOf(error) ELSE "SDK_ERROR",
   message |-> MessageOf(error),
   timestamp |-> t,
   docs |-> Undefined]

NoSurfaced == [code |-> "none", message |-> "none", timestamp |-> Null, docs |-> Undefined]

\* catch (error) { return handleApiError(error); }: handleApiError throws
CatchBlock(raw) ==
  [outcome |-> "threw", value |-> Undefined, error |-> HandleApiError(raw)]

Idle == [pc |-> "idle"]

\* an operation's record.  The code's own: name, forceDelete, pc.  History: id (its
\* number), the calls it made (remoteCalls, limiterChecks, cacheGets, cacheSets),
\* refused (the limiter's answer at its start was allowed: false), cached (the live
\* value the cache held for its key at its start), countBefore/countAfter (the
\* window's requestCount before and after its limiter check), windowStart,
\* follows (set when it directly follows an identical fetch that started on a cold
\* cache, was allowed, succeeded, and whose entry is still live), raised/lastRaw (an
\* exception was thrown inside its try block, and which), and how it ended;
\* viaSDK (it was called through the SDK instance's wrapper), surfaced (what
\* that wrapper threw to its caller) and sawAuth (one of its remote calls was
\* rejected with HTTP 401).
NoFollows == [cold |-> FALSE, remoteCalls |-> 0, countBefore |-> 0, windowStart |-> 0]

NoOp ==
  [name |-> "none", id |-> 0, pc |-> "none", forceDelete |-> FALSE,
   remoteCalls |-> 0, limiterChecks |-> 0, cacheGets |-> 0, cacheSets |-> 0,
   refused |-> FALSE, cached |-> Undefined,
   countBefore |-> 0, countAfter |-> 0, windowStart |-> 0, follows |-> NoFollows,
   raised |-> FALSE, remoteFailed |-> FALSE, lastRaw |-> PlainError,
   outcome |-> "none", value |-> Undefined, error |-> NoError,
   viaSDK |-> FALSE, surfaced |-> NoSurfaced, sawAuth |-> FALSE]

\* the SDK instance: null, or Object.freeze(new SleepSDK()) with the wrapped
\* operations and the plain functions its constructor binds
NullInstance == [isNull |-> TRUE, frozen |-> FALSE, wrapped |-> {}, plain |-> {}]

WrappedOperations ==
  {"fetchUserSleepData", "fetchAllSleepData", "updateSleepData",
   "fetchUserSleepStats", "deleteSleepData"}

SleepSDK ==
  [isNull |-> FALSE, frozen |-> TRUE, wrapped |-> WrappedOperations,
   plain |-> {"calculateAverageSleepHours", "applyCustomMetrics",
              "calculateSleepDebt", "calculateSleepConsistency",
              "generateSleepRecommendations", "generateSleepReport",
              "calculateSleepDurationStats", "calculateSleepDurations",
              "calculateTotalSleepDuration", "clearNamespaceCache",
              "getCacheStats", "validateCacheKey"}]

NotInitializedMessage == "SDK not initialized. Call initialize() first"

NoGetSDK ==
  [called |-> FALSE, threw |-> FALSE, message |-> "none", value |-> NullInstance,
   completedBefore |-> 0, awaitingBefore |-> FALSE]

\* index.js at module load.  The code's own: isInitialized, sdkInstance, and
\* preload (config.cache.preload).  History: calls (initialize() calls made),
\* awaiting (the warm-up fetches whose initialize() is suspended at its await),
\* completed (initialize() calls that returned), lastGetSDK (the latest getSDK()
\* call: what it did, and how many initialize() calls had completed and whether
\* one was awaiting when it was made), surfaced (the failures the wrapper threw to
\* SDK callers: their category and the code they surfaced with).
SdkAtLoad(preload) ==
  [isInitialized |-> FALSE, sdkInstance |-> NullInstance, preload |-> preload,
   calls |-> 0, awaiting |-> {}, completed |-> 0, lastGetSDK |-> NoGetSDK,
   surfaced |-> {}]

\* an initialize() that marks the SDK initialized before it awaits the warm-up
InitializeStarts_MarksEarly(s) == [s EXCEPT !.calls = @ + 1, !.isInitialized = TRUE]

\* initialize() up to await warmUpCache(): nothing of the SDK's state is written
InitializeStarts(s) == [s EXCEPT !.calls = @ + 1]

\* initialize() after the warm-up, or without one:
\* isInitialized = true; sdkInstance = Object.freeze(new SleepSDK())
InitializeCompletes(s) ==
  [s EXCEPT !.isInitialized = TRUE, !.sdkInstance = SleepSDK, !.completed = @ + 1]

\* getSDK()
GetSDK(s) ==
  IF ~s.isInitialized
  THEN [threw |-> TRUE, message |-> NotInitializedMessage, value |-> NullInstance]
  ELSE [threw |-> FALSE, message |-> "none", value |-> s.sdkInstance]

\* the wrapper's catch block, for an operation that ended: throw
\* this._formatError(error)
NoteSurfaced(s, op) ==
  IF op.viaSDK /\ op.outcome = "threw"
  THEN [s EXCEPT !.surfaced =
          @ \cup {[category |-> op.error.type, code |-> op.surfaced.code]}]
  ELSE s

NothingStarted ==
  /\ ops = [i \in 1..MaxInFlight |-> Idle]
  /\ done = NoOp
  /\ started = 0
  /\ sdk = SdkAtLoad(FALSE)

\* the operation ends by returning value
Returned(op, value) ==
  [op EXCEPT !.pc = "done", !.outcome = "returned", !.value = value]

\* raw is thrown inside the operation's try block at time t; the SDK's wrapper
\* formats what the catch block throws
Threw(op, raw, t) ==
  LET c == CatchBlock(raw) IN
    [op EXCEPT !.pc = "done", !.raised = TRUE, !.lastRaw = raw,
               !.outcome = c.outcome, !.value = c.value, !.error = c.error,
               !.surfaced = IF op.viaSDK THEN FormatError(c.error, t)
                            ELSE NoSurfaced]

\* the part of an operation that runs before its first await, at time t:
\* limiter check, confirmation check, cache lookup, and the remote call's start.
\* Gives the limiter's and the cache's new state and the operation's record.
BeforeAwait(name, forceDelete, viaSDK, id, rl, cfg, store, stats, prior, alone, t) ==
  LET chk  == CheckRateLimit(rl, cfg, t)
      nk   == GetNamespacedKey(DefaultNamespace, CacheKeyOf(name))
      live == IF name \in Fetches THEN NodeCacheGet(store, nk, t).value ELSE Undefined
      op   == [NoOp EXCEPT
                 !.name = name, !.id = id, !.forceDelete = forceDelete,
                 !.viaSDK = viaSDK,
                 !.limiterChecks = 1,
                 !.refused = ~chk.result.allowed,
                 !.cached = live,
                 !.countBefore = ResetWindow(rl, t).requestCount,
                 !.countAfter = chk.state.requestCount,
                 !.windowStart = chk.state.lastResetTime,
                 !.follows =
                    IF /\ alone /\ name \in Fetches /\ prior.name = name
                       /\ prior.outcome = "returned" /\ prior.cached = Undefined
                       /\ ~prior.refused /\ prior.cacheSets = 1
                       /\ live # Undefined
                    THEN [cold |-> TRUE, remoteCalls |-> prior.remoteCalls,
                          countBefore |-> prior.countBefore,
                          windowStart |-> prior.windowStart]
                    ELSE NoFollows]
      keep == [store |-> store, stats |-> stats, value |-> Undefined, threw |-> FALSE]
  IN IF LimiterRefuses(chk.result)
     THEN [rl |-> chk, c |-> keep, got |-> FALSE,
           op |-> Threw(op, ThrownApiError("rate_limit_error", 429), t)]
     ELSE IF ConfirmationMissing(name, forceDelete)
     THEN [rl |-> chk, c |-> keep, got |-> FALSE,
           op |-> Threw(op, ThrownApiError("confirmation_required", 400), t)]
     ELSE IF name \in Fetches
     THEN LET g == GetCachedData(store, stats, CacheKeyOf(name), FALSE, <<>>, t)
              o == [op EXCEPT !.cacheGets = 1]
          IN IF ServedFromCache(g, t)
             THEN [rl |-> chk, c |-> g, got |-> TRUE, op |-> Returned(o, g.value)]
             ELSE [rl |-> chk, c |-> g, got |-> TRUE,
                   op |-> [o EXCEPT !.pc = "awaiting", !.remoteCalls = 1]]
     ELSE [rl |-> chk, c |-> keep, got |-> FALSE,
           op |-> [op EXCEPT !.pc = "awaiting", !.remoteCalls = 1]]

\* what the remote call settles with: response.data, or a rejection
RemoteData == {"d1", "d2", Undefined}
RemoteErrors ==
  {AxiosStatus(400), AxiosStatus(401), AxiosStatus(404), AxiosStatus(429),
   AxiosStatus(500), AxiosTimeout, RawAbort, PlainError}

\* the operation's code after its remote call resolved with response.data = data:
\* the cache after it and the finished record
AfterResolve(op, data, store, stats, t) ==
  LET keep == [store |-> store, stats |-> stats, value |-> Undefined, threw |-> FALSE]
  IN IF op.name \in Fetches
     THEN LET w == CacheResponse(store, stats, op.name, data, t) IN
            IF w.threw
            THEN [c |-> w, set |-> FALSE, op |-> Threw(op, PlainError, t)]
            ELSE [c |-> w, set |-> TRUE,
                  op |-> Returned([op EXCEPT !.cacheSets = 1], data)]
     ELSE IF op.name = "batchDeleteSleepData"
     THEN \* response.data.deletedCount: a TypeError when data is undefined
          IF data = Undefined
          THEN [c |-> keep, set |-> FALSE, op |-> Threw(op, PlainError, t)]
          ELSE [c |-> keep, set |-> FALSE, op |-> Returned(op, "success")]
     ELSE IF op.name = "deleteSleepData"
     THEN [c |-> keep, set |-> FALSE, op |-> Returned(op, "deleted")]
     ELSE [c |-> keep, set |-> FALSE, op |-> Returned(op, data)]

\* a fetch that stores its failure under its cache key
AfterReject_CachesFailure(op, raw, store, stats, t) ==
  IF op.name \in Fetches
  THEN [c |-> CacheResponse(store, stats, op.name, Rejected, t),
        op |-> Threw([op EXCEPT !.remoteFailed = TRUE, !.cacheSets = 1], raw, t)]
  ELSE [c |-> [store |-> store, stats |-> stats, value |-> Undefined, threw |-> FALSE],
        op |-> Threw([op EXCEPT !.remoteFailed = TRUE], raw, t)]

\* the operation's code after its remote call rejected with raw on the last
\* attempt: the catch block alone runs, the cache is not touched
AfterReject(op, raw, store, stats, t) ==
  [c |-> [store |-> store, stats |-> stats, value |-> Undefined, threw |-> FALSE],
   op |-> Threw([op EXCEPT !.remoteFailed = TRUE], raw, t)]

---------------------------------------------------------------------------
(* The limiter variant: src/unnamed/part_006 *)

\* blockDuration of the variant outside test mode
VariantBlockDuration == 30000

\* a window reset that leaves the block standing
VariantResetWindow_KeepsBlock(st, t) ==
  IF WindowElapsed(st, t)
  THEN [st EXCEPT !.requestCount = 0, !.lastResetTime = t]
  ELSE st

\* "Reset the window if expired and clear block"
VariantResetWindow(st, t) ==
  IF WindowElapsed(st, t)
  THEN [st EXCEPT !.requestCount = 0, !.lastResetTime = t, !.blockedUntil = Null]
  ELSE st

\* the variant's checkRateLimit(identifier) run at time t on state st, with the
\* window size of rateLimiter.js: count the call, reset an expired window and
\* clear the block, refuse while blocked, block at the window cap, allow
VariantCheckRateLimit(st, cfg, t) ==
  LET n == [st EXCEPT !.stats.totalRequests = @ + 1]
      w == VariantResetWindow(n, t)
  IN IF IsBlocked(w, t)
     THEN [state  |-> [w EXCEPT !.stats.blockedRequests = @ + 1],
           result |-> [allowed |-> FALSE, remaining |-> Null, reset |-> Null,
                       retryAfter |-> w.blockedUntil - t]]
     ELSE IF w.requestCount >= cfg.maxRequestsPerMinute
     THEN [state  |-> [w EXCEPT !.blockedUntil = t + VariantBlockDuration,
                                !.stats.blockedRequests = @ + 1],
           result |-> [allowed |-> FALSE, remaining |-> 0,
                       reset |-> WindowSize - (t - w.lastResetTime),
                       retryAfter |-> VariantBlockDuration]]
     ELSE LET s2 == [w EXCEPT !.requestCount = @ + 1,
                              !.stats.successfulRequests = @ + 1]
          IN [state  |-> s2,
              result |-> [allowed |-> TRUE,
                          remaining |-> cfg.maxRequestsPerMinute - s2.requestCount,
                          reset |-> WindowSize - (t - s2.lastResetTime),
                          retryAfter |-> Null]]

\* the variant's resetRateLimiter(clearStats) run at time t
VariantResetRateLimiter(st, clearStats, t) ==
  [requestCount |-> 0, lastResetTime |-> t, blockedUntil |-> Null,
   stats |-> IF clearStats THEN InitialStats ELSE st.stats]

---------------------------------------------------------------------------
(* The clock *)

\* advances of Date.now() between two calls
TimeSteps == {1, WindowSize, BlockDuration}

Tick ==
  /\ ticks < MaxTicks
  /\ \E d \in TimeSteps : now' = now + d
  /\ ticks' = ticks + 1
  /\ UNCHANGED <<limiterVars, cacheVars, govVars>>

---------------------------------------------------------------------------
(* Direct use of the limiter *)

NoResult == [allowed |-> FALSE, remaining |-> Null, reset |-> Null, retryAfter |-> Null]

\* history of a freshly reset limiter: no call yet, still in the window the reset
\* started, no burst block set; clearStats is the argument of that reset;
\* allowedInWindow counts the allowed results given since the current window
\* started, allowedSinceStats those given since the statistics were last zeroed
FreshHistory ==
  [calls |-> 0, oneWindow |-> TRUE, burstBlockedUntil |-> Null, clearStats |-> FALSE,
   allowedInWindow |-> 0, allowedSinceStats |-> 0]

InitLimiter ==
  /\ now = 0
  /\ ticks = 0
  /\ config \in [maxRequestsPerMinute : 0..MaxConfiguredRequests]
  /\ rateLimiterState = InitialLimiterState(now)
  /\ lastResult = NoResult
  /\ nCalls = 0
  /\ sinceReset = FreshHistory
  /\ CacheAtLoad
  /\ NothingStarted

\* what a call adds to the history kept since the last reset
NoteCall(h, st, cfg, t) ==
  [calls |-> h.calls + 1,
   oneWindow |-> h.oneWindow /\ ~WindowElapsed(st, t),
   burstBlockedUntil |->
     IF ~IsBlocked(st, t) /\ BurstReached(ResetWindow(st, t), cfg)
     THEN t + BlockDuration
     ELSE h.burstBlockedUntil,
   clearStats |-> h.clearStats,
   allowedInWindow |->
     LET r == CheckRateLimit(st, cfg, t) IN
       (IF r.state.lastResetTime # st.lastResetTime THEN 0 ELSE h.allowedInWindow)
       + (IF r.result.allowed THEN 1 ELSE 0),
   allowedSinceStats |->
     h.allowedSinceStats + (IF CheckRateLimit(st, cfg, t).result.allowed THEN 1 ELSE 0)]

CallCheckRateLimit ==
  /\ nCalls < MaxCalls
  /\ LET r == CheckRateLimit(rateLimiterState, config, now) IN
       /\ rateLimiterState' = r.state
       /\ lastResult' = r.result
  /\ nCalls' = nCalls + 1
  /\ sinceReset' = NoteCall(sinceReset, rateLimiterState, config, now)
  /\ UNCHANGED <<config, now, ticks, cacheVars, govVars>>

CallResetRateLimiter ==
  /\ \E clearStats \in BOOLEAN :
       /\ rateLimiterState' = ResetRateLimiter(rateLimiterState, clearStats, now)
       /\ sinceReset' = [FreshHistory EXCEPT
                            !.clearStats = clearStats,
                            !.allowedSinceStats =
                               IF clearStats THEN 0 ELSE sinceReset.allowedSinceStats]
  /\ UNCHANGED <<config, lastResult, nCalls, now, ticks, cacheVars, govVars>>

NextLimiter ==
  \/ CallCheckRateLimit
  \/ CallResetRateLimiter
  \/ Tick

SpecLimiter == InitLimiter /\ [][NextLimiter]_vars

---------------------------------------------------------------------------
(* The two limiters side by side: every call and every reset is made on both at
   the same time.  sinceReset also holds the variant's state and the variant's
   last result. *)

\* advances of Date.now() between two calls of the pair
VariantTimeSteps == {1, VariantBlockDuration, WindowSize}

BesideVariant(h, st, result) == [variant |-> st, variantResult |-> result] @@ h

InitVariants ==
  /\ now = 0
  /\ ticks = 0
  /\ config \in [maxRequestsPerMinute : 0..MaxConfiguredRequests]
  /\ rateLimiterState = InitialLimiterState(now)
  /\ lastResult = NoResult
  /\ nCalls = 0
  /\ sinceReset = BesideVariant(FreshHistory, InitialLimiterState(now), NoResult)
  /\ CacheAtLoad
  /\ NothingStarted

CallBothCheckRateLimit ==
  /\ nCalls < MaxCalls
  /\ LET r == CheckRateLimit(rateLimiterState, config, now)
         v == VariantCheckRateLimit(sinceReset.variant, config, now)
     IN /\ rateLimiterState' = r.state
        /\ lastResult' = r.result
        /\ sinceReset' = BesideVariant(NoteCall(sinceReset, rateLimiterState, config, now),
                                       v.state, v.result)
  /\ nCalls' = nCalls + 1
  /\ UNCHANGED <<config, now, ticks, cacheVars, govVars>>

CallBothResetRateLimiter ==
  /\ \E clearStats \in BOOLEAN :
       /\ rateLimiterState' = ResetRateLimiter(rateLimiterState, clearStats, now)
       /\ sinceReset' =
            BesideVariant([FreshHistory EXCEPT
                             !.clearStats = clearStats,
                             !.allowedSinceStats =
                                IF clearStats THEN 0 ELSE sinceReset.allowedSinceStats],
                          VariantResetRateLimiter(sinceReset.variant, clearStats, now),
                          sinceReset.variantResult)
  /\ UNCHANGED <<config, lastResult, nCalls, now, ticks, cacheVars, govVars>>

TickVariants ==
  /\ ticks < MaxTicks
  /\ \E d \in VariantTimeSteps : now' = now + d
  /\ ticks' = ticks + 1
  /\ UNCHANGED <<limiterVars, cacheVars, govVars>>

NextVariants ==
  \/ CallBothCheckRateLimit
  \/ CallBothResetRateLimiter
  \/ TickVariants

SpecVariants == InitVariants /\ [][NextVariants]_vars

---------------------------------------------------------------------------
(* Direct use of the cache *)

\* what the callers pass: (namespace, raw key) pairs (<<>>: no namespace given),
\* namespaces to clear, data, and ttls in seconds (0: none given)
CacheAddresses ==
  {<< <<>>, <<"u", ":", "k">> >>, << <<>>, <<"u", ":", "j">> >>, << <<"u">>, <<"k">> >>}
CacheNamespaces == {<<"u">>}
CacheValues == {"d1", "d2"}
CacheTtls == {0, 1}
\* advances of Date.now() between two cache calls: 1 s and the default TTL
CacheTimeSteps == {1000, StdTTL * 1000}

InitCache ==
  /\ now = 0
  /\ ticks = 0
  /\ config = [maxRequestsPerMinute |-> MaxConfiguredRequests]
  /\ rateLimiterState = InitialLimiterState(now)
  /\ lastResult = NoResult
  /\ nCalls = 0
  /\ sinceReset = FreshHistory
  /\ CacheAtLoad
  /\ NothingStarted

CacheCallsMade ==
  cacheStats.hits + cacheStats.misses + cacheStats.sets

CallSetCachedData ==
  /\ CacheCallsMade < MaxCacheCalls
  /\ \E a \in CacheAddresses, data \in CacheValues \cup {Undefined},
        ttl \in CacheTtls :
       LET namespace == a[1]
           key == a[2]
           r  == SetCachedData(cache, cacheStats, key, data, ttl, namespace, now)
           nk == GetNamespacedKey(NamespaceOrDefault(namespace), key)
       IN /\ cache' = r.store
          /\ cacheStats' = r.stats
          /\ lastCacheCall' = [NoCall EXCEPT !.op = "set", !.key = nk, !.data = data,
                                             !.value = r.value, !.threw = r.threw]
          /\ written' = IF r.threw THEN written
                        ELSE With(written, nk,
                                  [v |-> data,
                                   expires |-> now + TtlOrDefault(ttl) * 1000,
                                   refreshed |-> FALSE, fallback |-> FALSE,
                                   namespace |-> namespace, key |-> key])
  /\ UNCHANGED <<clockVars, limiterVars, pending, govVars>>

CallGetCachedData ==
  /\ CacheCallsMade < MaxCacheCalls
  /\ \E a \in CacheAddresses, refreshTTL \in BOOLEAN, fallback \in BOOLEAN :
       LET namespace == a[1]
           key == a[2]
           r  == GetCachedData(cache, cacheStats, key, refreshTTL, namespace, now)
           nk == GetNamespacedKey(NamespaceOrDefault(namespace), key)
           awaits == InvokesFallback(pending, nk, fallback, r.value)
           free == {i \in 1..MaxFallbacks : pending[i].state = "none"}
           slot == IF awaits THEN CHOOSE i \in free : \A j \in free : i <= j ELSE 0
           others == AwaitingFor(pending, nk)
       IN /\ fallback => free # {}
          /\ cache' = r.store
          /\ cacheStats' = r.stats
          /\ lastCacheCall' = [NoCall EXCEPT !.op = "get", !.key = nk,
                                             !.fallback = fallback,
                                             !.value = IF awaits THEN Pending
                                                                 ELSE r.value,
                                             !.threw = r.threw,
                                             !.afterRefresh = nk \in DOMAIN written
                                                              /\ written[nk].refreshed,
                                             !.slot = slot,
                                             !.raced = awaits /\ others # {}]
          /\ written' = IF refreshTTL /\ r.stats.hits > cacheStats.hits
                                     /\ nk \in DOMAIN written
                        THEN [written EXCEPT ![nk].refreshed = TRUE]
                        ELSE written
          /\ pending' = IF awaits
                        THEN [i \in 1..MaxFallbacks |->
                                IF i = slot
                                THEN [state |-> "awaiting", key |-> key,
                                      namespace |-> namespace, invoked |-> 1,
                                      raced |-> others # {}]
                                ELSE IF i \in others
                                     THEN [pending[i] EXCEPT !.raced = TRUE]
                                     ELSE pending[i]]
                        ELSE pending
  /\ UNCHANGED <<clockVars, limiterVars, govVars>>

\* options.fallback() settles, and the getCachedData call that awaited it goes on
FallbackSettles ==
  /\ \E slot \in 1..MaxFallbacks,
        fallbackValue \in CacheValues \cup {Undefined, Rejected} :
       LET call == pending[slot]
           nk == GetNamespacedKey(NamespaceOrDefault(call.namespace), call.key)
           r  == IF fallbackValue = Rejected
                 THEN Outcome(cache, cacheStats, Undefined, TRUE)
                 ELSE FallbackStore(cache, cacheStats, call.key,
                                    call.namespace, fallbackValue, now)
       IN /\ call.state = "awaiting"
          /\ cache' = r.store
          /\ cacheStats' = r.stats
          /\ lastCacheCall' = [NoCall EXCEPT !.op = "fallback", !.key = nk,
                                  !.data = fallbackValue, !.fallback = TRUE,
                                  !.value = IF r.threw THEN Undefined
                                                       ELSE fallbackValue,
                                  !.threw = r.threw,
                                  !.slot = slot, !.raced = call.raced]
          /\ written' = IF r.threw THEN written
                        ELSE With(written, nk,
                                  [v |-> fallbackValue,
                                   expires |-> now + StdTTL * 1000,
                                   refreshed |-> FALSE, fallback |-> TRUE,
                                   namespace |-> call.namespace,
                                   key |-> call.key])
          /\ pending' = [pending EXCEPT ![slot] = NoFallback]
  /\ UNCHANGED <<clockVars, limiterVars, govVars>>

CallClearNamespaceCache ==
  /\ \E namespace \in CacheNamespaces :
       LET r == ClearNamespaceCache(cache, cacheStats, namespace)
       IN /\ cache' = r.store
          /\ cacheStats' = r.stats
          /\ lastCacheCall' = [NoCall EXCEPT !.op = "clearNamespace",
                                             !.key = namespace, !.count = r.count]
          /\ written' = Without(written, NamespaceKeys(written, namespace))
  /\ UNCHANGED <<clockVars, limiterVars, pending, govVars>>

CallClearExpiredCache ==
  /\ \E keysCallsBack \in BOOLEAN :
       LET r == ClearExpiredCache(cache, cacheStats, now, keysCallsBack)
       IN /\ cache' = r.store
          /\ cacheStats' = r.stats
          /\ lastCacheCall' = [NoCall EXCEPT !.op = "clearExpired",
                                  !.count = r.stats.deletes - cacheStats.deletes]
  /\ UNCHANGED <<clockVars, limiterVars, written, pending, govVars>>

\* NodeCache's own timer, every checkperiod seconds
PeriodicCheck ==
  /\ cache' = NodeCacheCheckData(cache, now)
  /\ lastCacheCall' = [NoCall EXCEPT !.op = "checkData"]
  /\ UNCHANGED <<clockVars, limiterVars, cacheStats, written, pending, govVars>>

CacheTick ==
  /\ ticks < MaxCacheTicks
  /\ \E d \in CacheTimeSteps : now' = now + d
  /\ ticks' = ticks + 1
  /\ lastCacheCall' = [NoCall EXCEPT !.op = "tick"]
  /\ UNCHANGED <<limiterVars, cache, cacheStats, written, pending, govVars>>

NextCache ==
  \/ CallSetCachedData
  \/ CallGetCachedData
  \/ FallbackSettles
  \/ CallClearNamespaceCache
  \/ CallClearExpiredCache
  \/ PeriodicCheck
  \/ CacheTick

SpecCache == InitCache /\ [][NextCache]_vars

---------------------------------------------------------------------------
(* Key validation on its own *)

\* key lengths around the limits, and characters inside and outside the set
KeyLengths == {0, 1, 2, KeyMaxLength - 1, KeyMaxLength, KeyMaxLength + 1}
ProbeCharacters ==
  {"a", "z", "A", "Z", "0", "9", "_", "-", ".", ":", " ", "/", "@", "\n"}

\* the string of n characters "a" with c at position pos
KeyWith(n, pos, c) == [i \in 1..n |-> IF i = pos THEN c ELSE "a"]

KeyInputs ==
  {[type |-> "string", chars |-> KeyWith(n, pos, c)] :
     n \in KeyLengths, pos \in {1, 2, KeyMaxLength}, c \in ProbeCharacters}
  \cup {[type |-> t, chars |-> <<>>] : t \in {"undefined", "number", "object"}}

CallValidateCacheKey ==
  /\ \E key \in KeyInputs :
       LET message == ValidateCacheKey(key) IN
         lastCacheCall' = [NoCall EXCEPT !.op = "validate", !.key = key,
                                         !.value = message,
                                         !.threw = message # Undefined]
  /\ UNCHANGED <<clockVars, limiterVars, cache, cacheStats, written, pending, govVars>>

NextValidate == CallValidateCacheKey

SpecValidate == InitCache /\ [][NextValidate]_vars

\* C18: validateKey fails exactly for keys that are empty or not a string, longer
\* than 256 characters, or hold a character outside [A-Za-z0-9_.:-]; a key of
\* exactly 256 allowed characters passes.
C18_ValidateKey ==
  lastCacheCall.op = "validate" =>
    LET key == lastCacheCall.key IN
      lastCacheCall.threw <=>
        \/ key.type # "string"
        \/ Len(key.chars) = 0
        \/ Len(key.chars) > 256
        \/ \E i \in 1..Len(key.chars) : key.chars[i] \notin KeyCharacters

\* C18 witness: a key of 256 allowed characters, ending in ':', passed
C18_Witness ==
  /\ lastCacheCall.op = "validate"
  /\ lastCacheCall.key.type = "string"
  /\ Len(lastCacheCall.key.chars) = 256
  /\ lastCacheCall.key.chars[256] = ":"
  /\ ~lastCacheCall.threw

---------------------------------------------------------------------------
(* Addressing: entries written and read under (namespace, key) pairs whose *)
(* parts hold the separator                                               *)

\* (namespace, key) pairs, << >> being no namespace option
ProbeAddresses ==
  {<< <<"u">>, <<"k", ":", "j">> >>, << <<"u", ":", "k">>, <<"j">> >>,
   << <<"u">>, <<"j">> >>, << <<>>, <<"j">> >>}

\* what getCachedData(key, { namespace }) would return now
Lookup(store, stats, a, t) == GetCachedData(store, stats, a[2], FALSE, a[1], t).value

SetUnderAddress ==
  /\ CacheCallsMade < MaxCacheCalls
  /\ \E a \in ProbeAddresses, data \in CacheValues :
       LET r  == SetCachedData(cache, cacheStats, a[2], data, 0, a[1], now)
           nk == GetNamespacedKey(NamespaceOrDefault(a[1]), a[2])
       IN /\ cache' = r.store
          /\ cacheStats' = r.stats
          /\ lastCacheCall' = [NoCall EXCEPT !.op = "set", !.key = nk, !.data = data,
                                             !.value = r.value, !.threw = r.threw]
          /\ written' = IF r.threw THEN written
                        ELSE With(written, nk,
                                  [v |-> data, expires |-> now + StdTTL * 1000,
                                   refreshed |-> FALSE, fallback |-> FALSE,
                                   namespace |-> a[1], key |-> a[2]])
  /\ UNCHANGED <<clockVars, limiterVars, pending, govVars>>

GetUnderAddress ==
  /\ CacheCallsMade < MaxCacheCalls
  /\ \E a \in ProbeAddresses :
       LET r  == GetCachedData(cache, cacheStats, a[2], FALSE, a[1], now)
           nk == GetNamespacedKey(NamespaceOrDefault(a[1]), a[2])
       IN /\ cache' = r.store
          /\ cacheStats' = r.stats
          /\ lastCacheCall' = [NoCall EXCEPT !.op = "get", !.key = nk,
                                             !.value = r.value, !.threw = r.threw]
  /\ UNCHANGED <<clockVars, limiterVars, written, pending, govVars>>

NextAddress ==
  \/ SetUnderAddress
  \/ GetUnderAddress

SpecAddress == InitCache /\ [][NextAddress]_vars

\* C37: two lookups with different (namespace, key) pairs never address the same
\* entry: a set under one pair never changes what a get under another pair
\* returns, also when a namespace or a key holds ':'.
C37_PairsAddressDistinctEntries ==
  [][ (lastCacheCall'.op = "set" /\ ~lastCacheCall'.threw) =>
        LET w == written'[lastCacheCall'.key] IN
          \A a \in ProbeAddresses :
             a # <<w.namespace, w.key>> =>
               Lookup(cache', cacheStats', a, now) = Lookup(cache, cacheStats, a, now)
    ]_vars

---------------------------------------------------------------------------
(* The governed operations, run on the limiter and the cache *)

GovTimeSteps == {1, FetchTtl * 1000 + 1}

InitGov ==
  /\ now = 0
  /\ ticks = 0
  /\ config \in [maxRequestsPerMinute : 0..MaxConfiguredRequests]
  /\ rateLimiterState = InitialLimiterState(now)
  /\ lastResult = NoResult
  /\ nCalls = 0
  /\ sinceReset = FreshHistory
  /\ CacheAtLoad
  /\ NothingStarted

\* an operation is called: it runs up to its first await
StartOperation ==
  /\ started < MaxOps
  /\ \E i \in 1..MaxInFlight, name \in OperationNames, forceDelete \in BOOLEAN,
        viaSDK \in BOOLEAN :
       /\ ops[i] = Idle
       /\ \A j \in 1..(i - 1) : ops[j] # Idle
       /\ forceDelete => name = "batchDeleteSleepData"
       /\ viaSDK => ~GetSDK(sdk).threw /\ name \in GetSDK(sdk).value.wrapped
       /\ LET b == BeforeAwait(name, forceDelete, viaSDK, started + 1, rateLimiterState,
                               config, cache, cacheStats, done,
                               \A j \in 1..MaxInFlight : ops[j] = Idle, now)
          IN /\ rateLimiterState' = b.rl.state
             /\ lastResult' = b.rl.result
             /\ nCalls' = nCalls + 1
             /\ sinceReset' = NoteCall(sinceReset, rateLimiterState, config, now)
             /\ cache' = b.c.store
             /\ cacheStats' = b.c.stats
             /\ lastCacheCall' =
                  IF b.got
                  THEN [NoCall EXCEPT !.op = "get", !.value = b.c.value,
                          !.key = GetNamespacedKey(DefaultNamespace, CacheKeyOf(name))]
                  ELSE lastCacheCall
             /\ IF b.op.pc = "done"
                THEN done' = b.op /\ ops' = ops /\ sdk' = NoteSurfaced(sdk, b.op)
                ELSE ops' = [ops EXCEPT ![i] = b.op] /\ done' = done /\ sdk' = sdk
  /\ started' = started + 1
  /\ UNCHANGED <<clockVars, config, written, pending>>

\* the remote call of an operation in flight resolves
RemoteResolves ==
  /\ \E i \in 1..MaxInFlight, data \in RemoteData :
       /\ ops[i].pc = "awaiting"
       /\ LET a  == AfterResolve(ops[i], data, cache, cacheStats, now)
              nk == GetNamespacedKey(DefaultNamespace, CacheKeyOf(ops[i].name))
          IN /\ cache' = a.c.store
             /\ cacheStats' = a.c.stats
             /\ written' = IF a.set
                           THEN With(written, nk,
                                     [v |-> data, expires |-> now + FetchTtl * 1000,
                                      refreshed |-> FALSE, fallback |-> FALSE,
                                      namespace |-> <<>>,
                                      key |-> CacheKeyOf(ops[i].name)])
                           ELSE written
             /\ lastCacheCall' =
                  IF ops[i].name \in Fetches
                  THEN [NoCall EXCEPT !.op = "set", !.key = nk, !.data = data,
                                      !.value = a.c.value, !.threw = a.c.threw]
                  ELSE lastCacheCall
             /\ done' = a.op
             /\ ops' = [ops EXCEPT ![i] = Idle]
             /\ sdk' = NoteSurfaced(sdk, a.op)
  /\ UNCHANGED <<clockVars, limiterVars, pending, started>>

\* the remote call of an operation in flight rejects: retryRequest tries again,
\* or the error reaches the operation's catch block
RemoteRejects ==
  /\ \E i \in 1..MaxInFlight, raw \in RemoteErrors :
       /\ ops[i].pc = "awaiting"
       /\ IF LastAttempt(ops[i])
          THEN LET a == AfterReject([ops[i] EXCEPT
                                       !.sawAuth = @ \/ raw = AxiosStatus(401)],
                                    raw, cache, cacheStats, now)
               IN /\ done' = a.op
                  /\ cache' = a.c.store
                  /\ cacheStats' = a.c.stats
                  /\ ops' = [ops EXCEPT ![i] = Idle]
                  /\ sdk' = NoteSurfaced(sdk, done')
          ELSE /\ ops' = [ops EXCEPT ![i].remoteCalls = @ + 1,
                                     ![i].sawAuth = @ \/ raw = AxiosStatus(401)]
               /\ done' = done
               /\ sdk' = sdk
               /\ UNCHANGED <<cache, cacheStats>>
  /\ UNCHANGED <<clockVars, limiterVars, lastCacheCall, written, pending, started>>

GovTick ==
  /\ ticks < MaxGovTicks
  /\ \E d \in GovTimeSteps : now' = now + d
  /\ ticks' = ticks + 1
  /\ UNCHANGED <<limiterVars, cacheVars, govVars>>

NextGov ==
  \/ StartOperation
  \/ RemoteResolves
  \/ RemoteRejects
  \/ GovTick

SpecGov == InitGov /\ [][NextGov]_vars

---------------------------------------------------------------------------
(* The SDK's entry points, src/src/index.js: initialize() and getSDK() *)

InitSDK ==
  /\ now = 0
  /\ ticks = 0
  /\ config \in [maxRequestsPerMinute : 0..MaxConfiguredRequests]
  /\ rateLimiterState = InitialLimiterState(now)
  /\ lastResult = NoResult
  /\ nCalls = 0
  /\ sinceReset = FreshHistory
  /\ CacheAtLoad
  /\ ops = [i \in 1..MaxInFlight |-> Idle]
  /\ done = NoOp
  /\ started = 0
  /\ sdk \in {SdkAtLoad(preload) : preload \in BOOLEAN}

\* the numbers of the warm-up fetches follow those of the operations
WarmUpId(s) == MaxOps + s.calls + 1

\* initialize() is called.  Without preload it runs to its end; with preload it
\* runs warmUpCache(), that is fetchAllSleepData({ limit: 100 }), up to its await
CallInitialize ==
  /\ sdk.calls < MaxInitializes
  /\ IF ~sdk.preload
     THEN /\ sdk' = InitializeCompletes(InitializeStarts(sdk))
          /\ UNCHANGED <<limiterVars, cacheVars, ops, done>>
     ELSE \E i \in 1..MaxInFlight :
            /\ ops[i] = Idle
            /\ \A j \in 1..(i - 1) : ops[j] # Idle
            /\ LET b == BeforeAwait(WarmUpFetch, FALSE, FALSE, WarmUpId(sdk),
                                    rateLimiterState, config, cache, cacheStats,
                                    done, FALSE, now)
               IN /\ rateLimiterState' = b.rl.state
                  /\ lastResult' = b.rl.result
                  /\ nCalls' = nCalls + 1
                  /\ sinceReset' = NoteCall(sinceReset, rateLimiterState, config, now)
                  /\ cache' = b.c.store
                  /\ cacheStats' = b.c.stats
                  /\ lastCacheCall' =
                       IF b.got
                       THEN [NoCall EXCEPT !.op = "get", !.value = b.c.value,
                               !.key = GetNamespacedKey(DefaultNamespace,
                                                        CacheKeyOf(WarmUpFetch))]
                       ELSE lastCacheCall
                  /\ IF b.op.pc = "done"
                     THEN done' = b.op /\ ops' = ops
                     ELSE ops' = [ops EXCEPT ![i] = b.op] /\ done' = done
                  /\ sdk' = [InitializeStarts(sdk) EXCEPT
                               !.awaiting = @ \cup {WarmUpId(sdk)}]
            /\ UNCHANGED <<config, written, pending>>
  /\ UNCHANGED <<clockVars, started>>

\* the warm-up fetch of a suspended initialize() has settled: warmUpCache's catch
\* swallows a failure, and initialize() runs to its end
InitializeResumes ==
  /\ \E id \in sdk.awaiting :
       /\ \A i \in 1..MaxInFlight : IF ops[i] = Idle THEN TRUE ELSE ops[i].id # id
       /\ sdk' = [InitializeCompletes(sdk) EXCEPT !.awaiting = @ \ {id}]
  /\ UNCHANGED <<clockVars, limiterVars, cacheVars, ops, done, started>>

\* getSDK() is called
CallGetSDK ==
  /\ LET g == GetSDK(sdk) IN
       sdk' = [sdk EXCEPT !.lastGetSDK =
                 [called |-> TRUE, threw |-> g.threw, message |-> g.message,
                  value |-> g.value, completedBefore |-> sdk.completed,
                  awaitingBefore |-> sdk.awaiting # {}]]
  /\ UNCHANGED <<clockVars, limiterVars, cacheVars, ops, done, started>>

NextSDK ==
  \/ CallInitialize
  \/ InitializeResumes
  \/ CallGetSDK
  \/ RemoteResolves
  \/ RemoteRejects

SpecSDK == InitSDK /\ [][NextSDK]_vars

---------------------------------------------------------------------------
(* Clients of the SDK: operations called through the instance, whose wrapper *)
(* formats what they throw                                                   *)

\* a client calls an operation of the instance that initialize() or getSDK() gave
\* it
CallSDKOperation ==
  /\ ~GetSDK(sdk).threw
  /\ StartOperation
  /\ \/ done' # done /\ done'.viaSDK
     \/ \E i \in 1..MaxInFlight : ops'[i] # ops[i] /\ ops'[i].viaSDK

NextClient ==
  \/ CallInitialize
  \/ CallSDKOperation
  \/ RemoteResolves
  \/ RemoteRejects

SpecClient == InitGov /\ [][NextClient]_vars

\* C23: every error surfaced to the caller of an SDK operation carries a kind, a
\* message and a timestamp, and two failures of different categories never
\* surface with the same kind.
C23_SurfacedKindTellsCategory ==
  /\ (done.viaSDK /\ done.outcome = "threw") =>
        /\ done.surfaced.code # Undefined
        /\ done.surfaced.message # Undefined
        /\ done.surfaced.timestamp # Null
  /\ \A a, b \in sdk.surfaced : a.category # b.category => a.code # b.code

---------------------------------------------------------------------------
(* Claims about the cache, checked under SpecCache *)

\* the latest call was a get of a key that has been set and not cleared since
GotWrittenKey ==
  /\ lastCacheCall.op = "get"
  /\ ~lastCacheCall.fallback
  /\ lastCacheCall.key \in DOMAIN written

\* C10 as stated: after set(k, v, ttl) with no set or clear of k since, get(k)
\* returns v before ttl seconds have elapsed and null after they have.
C10_SetThenGet_AsStated ==
  GotWrittenKey =>
    LET w == written[lastCacheCall.key] IN
      /\ now < w.expires => lastCacheCall.value = w.v
      /\ now > w.expires => lastCacheCall.value = NullValue

\* C10 amended: the same, provided no get with refreshTTL has touched k since the
\* set (such a read moves the entry's expiry to now + the default TTL).
C10_SetThenGet ==
  (GotWrittenKey /\ ~lastCacheCall.afterRefresh) =>
    LET w == written[lastCacheCall.key] IN
      /\ now < w.expires => lastCacheCall.value = w.v
      /\ now > w.expires => lastCacheCall.value = NullValue

\* C10 witness: a key was set, read back as a hit, and after its ttl elapsed the
\* next get returned null
C10_Witness ==
  /\ GotWrittenKey
  /\ ~lastCacheCall.afterRefresh
  /\ now > written[lastCacheCall.key].expires
  /\ lastCacheCall.value = NullValue
  /\ cacheStats.hits >= 1

\* a step that is one getCachedData call
IsGetStep ==
  /\ lastCacheCall'.op = "get"
  /\ cacheStats'.hits + cacheStats'.misses = cacheStats.hits + cacheStats.misses + 1

\* the call of that step was answered as a miss
AnsweredAsMiss ==
  /\ lastCacheCall'.value = IF lastCacheCall'.fallback THEN Pending ELSE NullValue
  /\ cacheStats'.misses = cacheStats.misses + 1
  /\ cacheStats'.hits = cacheStats.hits

StoredIn(ns) ==
  {k \in DOMAIN cache : NamespaceOrDefault(written[k].namespace) = ns}

PrefixedKeys ==
  {GetNamespacedKey(DefaultNamespace, <<"u", ":", "k">>),
   GetNamespacedKey(DefaultNamespace, <<"u", ":", "j">>)}

\* C13: after set('u:k', v1) and set('u:j', v2), made with the prefixed strings as
\* keys and no namespace option, clearNamespace('u') returns 2 and both entries
\* are gone (a get of either returns null).
C13_PrefixedKeysCleared ==
  (/\ lastCacheCall.op = "clearNamespace"
   /\ lastCacheCall.key = <<"u">>
   /\ cacheStats.sets = 2
   /\ PrefixedKeys \subseteq DOMAIN written
   /\ cacheStats.deletes = lastCacheCall.count)
    => /\ lastCacheCall.count = 2
       /\ PrefixedKeys \cap DOMAIN cache = {}

\* the key looked up in this step holds an entry that has not expired
FoundLive ==
  /\ lastCacheCall'.key \in DOMAIN cache
  /\ now <= cache[lastCacheCall'.key].t

\* the set call of this step stored its value
Stored ==
  /\ ~lastCacheCall'.threw
  /\ lastCacheCall'.key \in DOMAIN cache'

\* C14: hits counts the gets that found a live entry, misses the gets that did
\* not, sets the set calls that stored a value: each call moves exactly its own
\* counter by one, and nothing else moves these counters.
C14_CountersCountCalls ==
  [][ /\ lastCacheCall'.op = "get" =>
           /\ cacheStats'.hits = cacheStats.hits + (IF FoundLive THEN 1 ELSE 0)
           /\ cacheStats'.misses = cacheStats.misses + (IF FoundLive THEN 0 ELSE 1)
           /\ cacheStats'.sets = cacheStats.sets
      /\ lastCacheCall'.op \in {"set", "fallback"} =>
           /\ cacheStats'.sets = cacheStats.sets + (IF Stored THEN 1 ELSE 0)
           /\ cacheStats'.hits = cacheStats.hits
           /\ cacheStats'.misses = cacheStats.misses
      /\ lastCacheCall'.op \notin {"get", "set", "fallback"} =>
           /\ cacheStats'.hits = cacheStats.hits
           /\ cacheStats'.misses = cacheStats.misses
           /\ cacheStats'.sets = cacheStats.sets ]_vars

\* C14 witness: a miss, a set, and a hit on the same key: hits = 1, misses = 1
C14_Witness ==
  /\ lastCacheCall.op = "get"
  /\ lastCacheCall.value = "d2"
  /\ lastCacheCall.key \in DOMAIN written
  /\ cacheStats = [hits |-> 1, misses |-> 1, sets |-> 1, deletes |-> 0]

\* C19: set(key, undefined) is rejected with an error and leaves the entries
\* (an existing entry under the key included) and all counters as they were.
C19_UndefinedRejected ==
  [][ (lastCacheCall'.op = "set" /\ lastCacheCall'.data = Undefined) =>
        /\ lastCacheCall'.threw
        /\ cache' = cache
        /\ cacheStats' = cacheStats ]_vars

\* C19 witness: set(k, undefined) was rejected while k held d1 from the one set
\* counted so far
C19_Witness ==
  /\ lastCacheCall.op = "set"
  /\ lastCacheCall.data = Undefined
  /\ lastCacheCall.threw
  /\ lastCacheCall.key \in DOMAIN cache
  /\ cache[lastCacheCall.key].v = "d1"
  /\ cacheStats.sets = 1

\* C20: get(key, {fallback}) on an absent or expired key invokes the fallback
\* once, stores its result under the lookup's namespaced key with the default
\* TTL through set, and returns it, so that a get that follows at once is a hit
\* returning it; on a live hit the fallback is not invoked.
C20_FallbackFillsCache ==
  [][ /\ (IsGetStep /\ lastCacheCall'.fallback /\ ~FoundLive) =>
           LET call == pending'[lastCacheCall'.slot] IN
             /\ pending[lastCacheCall'.slot].state = "none"
             /\ call.state = "awaiting"
             /\ call.invoked = 1
             /\ lastCacheCall'.key =
                  GetNamespacedKey(NamespaceOrDefault(call.namespace), call.key)
      /\ (IsGetStep /\ FoundLive) =>
           /\ pending' = pending
           /\ lastCacheCall'.value = cache[lastCacheCall'.key].v
      /\ (lastCacheCall'.op = "fallback"
            /\ lastCacheCall'.data \notin {Undefined, Rejected}) =>
           LET call == pending[lastCacheCall'.slot]
               nk == GetNamespacedKey(NamespaceOrDefault(call.namespace), call.key)
           IN /\ call.invoked = 1
              /\ pending'[lastCacheCall'.slot].state = "none"
              /\ ~lastCacheCall'.threw
              /\ lastCacheCall'.value = lastCacheCall'.data
              /\ nk \in DOMAIN cache'
              /\ cache'[nk] = [v |-> lastCacheCall'.data, t |-> now + StdTTL * 1000]
              /\ cacheStats'.sets = cacheStats.sets + 1
              /\ NodeCacheGet(cache', nk, now).value = lastCacheCall'.data ]_vars

\* C20 witness: a get with fallback missed in namespace u, the fallback's d2 was
\* stored, and the get that followed was a hit returning d2
C20_Witness ==
  /\ lastCacheCall.op = "get"
  /\ lastCacheCall.key = <<"u", ":", "k">>
  /\ lastCacheCall.value = "d2"
  /\ written[lastCacheCall.key].fallback
  /\ cacheStats = [hits |-> 1, misses |-> 1, sets |-> 1, deletes |-> 0]

\* C21: after clearExpired() no entry whose expiry time has passed remains in
\* the store, and every entry that has not expired is still there with its value
\* and expiry.
C21_ClearExpiredSweeps ==
  [][ lastCacheCall'.op = "clearExpired" =>
        /\ \A k \in DOMAIN cache' : ~(cache'[k].t < now)
        /\ \A k \in DOMAIN cache :
              ~(cache[k].t < now) => (k \in DOMAIN cache' /\ cache'[k] = cache[k])
     ]_vars

\* C32: the fallback path is not single-flight.  A get with a fallback that
\* misses invokes its fallback also while another call awaits the fallback of
\* the same entry; each call writes its own result, so the entry holds what was
\* written last, and each call returns what its own fallback produced.
C32_FallbackNotSingleFlight ==
  [][ /\ (IsGetStep /\ lastCacheCall'.fallback /\ ~FoundLive) =>
           /\ lastCacheCall'.slot \in 1..MaxFallbacks
           /\ pending'[lastCacheCall'.slot].invoked = 1
           /\ lastCacheCall'.raced = (AwaitingFor(pending, lastCacheCall'.key) # {})
      /\ (lastCacheCall'.op = "fallback"
            /\ lastCacheCall'.data \notin {Undefined, Rejected}) =>
           /\ lastCacheCall'.value = lastCacheCall'.data
           /\ lastCacheCall'.key \in DOMAIN cache'
           /\ cache'[lastCacheCall'.key].v = lastCacheCall'.data
           /\ cacheStats'.sets = cacheStats.sets + 1 ]_vars

\* two gets missed the same absent key while both fallbacks were awaited, d1 was
\* written and then d2: misses = 2, sets = 2, the entry holds d2, which the
\* second call returned
C32_Witness ==
  /\ lastCacheCall.op = "fallback"
  /\ lastCacheCall.raced
  /\ lastCacheCall.value = "d2"
  /\ cacheStats = [hits |-> 0, misses |-> 2, sets |-> 2, deletes |-> 0]
  /\ ticks = 0
  /\ pending = NonePending
  /\ DOMAIN cache = {lastCacheCall.key}
  /\ cache[lastCacheCall.key].v = "d2"

---------------------------------------------------------------------------
(* Claims about the limiter, checked under SpecLimiter *)

\* C1: from a freshly reset limiter, while every call falls inside the window the
\* reset started, the n-th call is allowed exactly when n <= maxRequestsPerMinute.
C1_FirstMaxAllowed ==
  (sinceReset.oneWindow /\ sinceReset.calls >= 1)
    => (lastResult.allowed <=> sinceReset.calls <= config.maxRequestsPerMinute)

\* C1 witness: the call right after the cap was filled, same window, is refused
C1_Witness ==
  /\ config.maxRequestsPerMinute >= 1
  /\ sinceReset.oneWindow
  /\ sinceReset.calls = config.maxRequestsPerMinute + 1
  /\ rateLimiterState.requestCount = config.maxRequestsPerMinute
  /\ ~lastResult.allowed

\* the step is a checkRateLimit() call
IsCheckStep == nCalls' = nCalls + 1

\* C2: once a call has found requestCount >= burstLimit and set blockedUntil, every
\* call made before that time (the finding call included) is refused with a
\* non-null retryAfter.
C2_RefusedUntilBlockElapsed ==
  [][ (IsCheckStep /\ sinceReset'.burstBlockedUntil # Null
                   /\ now < sinceReset'.burstBlockedUntil)
        => (~lastResult'.allowed /\ lastResult'.retryAfter # Null) ]_vars

\* C2 witness: a block set by the burst branch, the window since elapsed, and a
\* later call still refused with retryAfter = blockedUntil - now
C2_Witness ==
  /\ sinceReset.burstBlockedUntil # Null
  /\ sinceReset.calls >= 2
  /\ now < sinceReset.burstBlockedUntil
  /\ now - rateLimiterState.lastResetTime > WindowSize
  /\ ~lastResult.allowed
  /\ lastResult.retryAfter = sinceReset.burstBlockedUntil - now

\* C15: every checkRateLimit call adds one to stats.totalRequests and one to
\* exactly one of successfulRequests (allowed) and blockedRequests (refused).
C15_EveryCallCounted ==
  [][ IsCheckStep =>
        LET before == rateLimiterState.stats
            after  == rateLimiterState'.stats
        IN /\ after.totalRequests = before.totalRequests + 1
           /\ after.successfulRequests =
                before.successfulRequests + (IF lastResult'.allowed THEN 1 ELSE 0)
           /\ after.blockedRequests =
                before.blockedRequests + (IF lastResult'.allowed THEN 0 ELSE 1) ]_vars

\* a step that is one resetRateLimiter call
IsResetStep == sinceReset'.calls = 0 /\ nCalls' = nCalls /\ now' = now

\* C16: resetRateLimiter(clearStats) leaves requestCount = 0, the window starting
\* now and no block, zeroes the statistics exactly when clearStats is true, and
\* the next checkRateLimit call is allowed when maxRequestsPerMinute >= 1.
C16_ResetOpensLimiter ==
  [][ /\ IsResetStep =>
           /\ rateLimiterState'.requestCount = 0
           /\ rateLimiterState'.lastResetTime = now
           /\ rateLimiterState'.blockedUntil = Null
           /\ rateLimiterState'.stats =
                IF sinceReset'.clearStats THEN InitialStats
                                          ELSE rateLimiterState.stats
      /\ (IsCheckStep /\ sinceReset.calls = 0 /\ config.maxRequestsPerMinute >= 1)
           => lastResult'.allowed ]_vars

\* C16 witness: with a cap of 1, at time 0: a call allowed, a call refused, a
\* reset that kept the statistics, and a call allowed again
C16_Witness ==
  /\ config.maxRequestsPerMinute = 1
  /\ now = 0
  /\ sinceReset.calls = 1
  /\ ~sinceReset.clearStats
  /\ lastResult.allowed
  /\ rateLimiterState.stats.blockedRequests = 1
  /\ rateLimiterState.stats.successfulRequests = 2

\* C17 as stated: a checkRateLimit call made more than windowSize after the
\* start of the current window is allowed.
C17_AllowedAfterWindow_AsStated ==
  [][ (IsCheckStep /\ now - rateLimiterState.lastResetTime > WindowSize)
        => lastResult'.allowed ]_vars

\* C17 amended: the same, for maxRequestsPerMinute >= 1.
C17_AllowedAfterWindow ==
  [][ (IsCheckStep /\ now - rateLimiterState.lastResetTime > WindowSize
         /\ config.maxRequestsPerMinute >= 1)
        => lastResult'.allowed ]_vars

\* C17 witness: the cap was hit, and a call made after the window had elapsed
\* opened a new window and was allowed
C17_Witness ==
  /\ config.maxRequestsPerMinute >= 1
  /\ lastResult.allowed
  /\ ~sinceReset.oneWindow
  /\ sinceReset.calls >= 3
  /\ rateLimiterState.stats.blockedRequests >= 1
  /\ rateLimiterState.requestCount = 1
  /\ rateLimiterState.lastResetTime = now

\* what a call that started a new window leaves in requestCount: the request
\* it allowed, if it allowed one
CountAfterReset == IF lastResult'.allowed THEN 1 ELSE 0

C25_BlockCleared ==
  [][ IsCheckStep =>
        /\ ( /\ rateLimiterState.blockedUntil # Null
              /\ WindowElapsed(rateLimiterState, now)
              /\ now >= rateLimiterState.blockedUntil )
             => rateLimiterState'.blockedUntil = Null
        /\ ( /\ rateLimiterState.blockedUntil # Null
              /\ rateLimiterState'.blockedUntil = Null )
             => ( WindowElapsed(rateLimiterState, now)
                  \/ now >= rateLimiterState.blockedUntil )
    ]_vars

\* C26: every allowed result reports remaining = maxRequestsPerMinute -
\* requestCount, the count taken after the increment, and reset = windowSize -
\* (now - windowStart); remaining is never negative, and every denied result
\* reports remaining 0.
C26_RemainingAndReset ==
  [][ IsCheckStep =>
        /\ lastResult'.remaining >= 0
        /\ IF lastResult'.allowed
           THEN /\ lastResult'.remaining =
                     config.maxRequestsPerMinute - rateLimiterState'.requestCount
                /\ lastResult'.reset =
                     WindowSize - (now - rateLimiterState'.lastResetTime)
           ELSE lastResult'.remaining = 0
    ]_vars

\* an allowed call made inside a running window, with one more request to go
C26_Witness ==
  /\ lastResult.allowed
  /\ lastResult.remaining = 1
  /\ lastResult.reset < WindowSize
  /\ rateLimiterState.requestCount = 1

\* C27: retryAfter is null in every allowed result and in every result denied
\* because the window cap is reached, which leaves requestCount unchanged; in a
\* result denied by the block timer it is blockedUntil - now, a positive number.
C27_RetryAfter ==
  [][ IsCheckStep =>
        IF lastResult'.allowed
        THEN lastResult'.retryAfter = Null
        ELSE IF IsBlocked(rateLimiterState', now)
             THEN /\ lastResult'.retryAfter = rateLimiterState'.blockedUntil - now
                  /\ lastResult'.retryAfter > 0
             ELSE /\ lastResult'.retryAfter = Null
                  /\ rateLimiterState'.requestCount = rateLimiterState.requestCount
                  /\ rateLimiterState'.requestCount >= config.maxRequestsPerMinute
    ]_vars

\* a call was refused at the window cap, with no block timer set
C27_Witness ==
  /\ nCalls > 0
  /\ ~lastResult.allowed
  /\ lastResult.retryAfter = Null
  /\ rateLimiterState.blockedUntil = Null
  /\ rateLimiterState.stats.blockedRequests > 0
  /\ rateLimiterState.requestCount = config.maxRequestsPerMinute

\* C33: in every state reached by checkRateLimit and resetRateLimiter calls,
\* 0 <= requestCount <= maxRequestsPerMinute.
C33_CountWithinCap ==
  /\ rateLimiterState.requestCount >= 0
  /\ rateLimiterState.requestCount <= config.maxRequestsPerMinute

\* the cap was filled, a call was refused at it, and after a reset a call was
\* allowed again
C33_Witness ==
  /\ config.maxRequestsPerMinute = MaxConfiguredRequests
  /\ rateLimiterState.requestCount = 1
  /\ rateLimiterState.stats.successfulRequests = MaxConfiguredRequests + 1
  /\ rateLimiterState.stats.blockedRequests = 1
  /\ sinceReset.calls = 1

C35_ReinvokedAtMostOnce ==
  [][ IsCheckStep =>
        LET r == CheckRateLimit(rateLimiterState, config, now) IN
          /\ r.depth <= 1
          /\ lastResult' = r.result
          /\ lastResult'.remaining # Null
          /\ r.depth = 1 =>
                /\ rateLimiterState'.blockedUntil = now + BlockDuration
                /\ ~lastResult'.allowed
                /\ lastResult'.retryAfter = BlockDuration
                /\ rateLimiterState'.stats.blockedRequests =
                     rateLimiterState.stats.blockedRequests + 1
    ]_vars

\* a call met the burst threshold after an earlier block had run out, and its
\* nested call was refused by the block just set
C35_Witness ==
  /\ config.maxRequestsPerMinute = 0
  /\ now >= BlockDuration
  /\ rateLimiterState.blockedUntil = now + BlockDuration
  /\ lastResult.retryAfter = BlockDuration
  /\ rateLimiterState.stats.blockedRequests >= 2

\* C36: at every moment getRateLimiterStats().isBlocked is true exactly when the
\* block timer is active, blockedUntil set and now < blockedUntil; it is false
\* once the block has expired.
C36_IsBlockedTellsBlock ==
  GetRateLimiterStats(rateLimiterState).isBlocked <=> IsBlocked(rateLimiterState, now)

\* C40: run side by side from a reset, with the same maxRequestsPerMinute and
\* the same window size, the limiter of rateLimiter.js and the variant of
\* part_006 give the same allowed/denied decision for every call of every
\* sequence of call times.
C40_SameDecisions ==
  [][ nCalls' = nCalls + 1 =>
        sinceReset'.variantResult.allowed = lastResult'.allowed ]_vars

\* both allowed a call after both had refused one at the cap: the variant's block
\* was cleared by the window reset, the other limiter never set one
C40_Witness ==
  /\ config.maxRequestsPerMinute >= 1
  /\ sinceReset.calls >= 3
  /\ lastResult.allowed
  /\ sinceReset.variantResult.allowed
  /\ sinceReset.variant.stats.blockedRequests >= 1
  /\ rateLimiterState.stats.blockedRequests >= 1
  /\ sinceReset.variant.blockedUntil = Null
  /\ rateLimiterState.blockedUntil = Null

---------------------------------------------------------------------------
(* Claims about the governed operations *)

InFlight == {i \in 1..MaxInFlight : ops[i] # Idle}
Finished == done.name # "none"
DefaultKeyOf(name) == GetNamespacedKey(DefaultNamespace, CacheKeyOf(name))
ErrorClasses == {"ApiError", "NetworkError", "AuthError"}
ErrorTypes ==
  {"rate_limit_error", "confirmation_required", "bad_request", "auth_error",
   "not_found", "http_error", "network_error", "unknown_error"}
Deletions == {"deleteSleepData", "batchDeleteSleepData"}

\* C3: a governed operation that starts while the limiter denies requests fails
\* with a rate-limit error and never invokes its remote call.
C3_RefusedNeverCallsRemote ==
  /\ \A i \in InFlight : ~ops[i].refused
  /\ (Finished /\ done.refused) =>
        /\ done.remoteCalls = 0
        /\ done.outcome = "threw"
        /\ done.error.type = "rate_limit_error"

\* C4: a governed fetch that finds a live cache entry returns the cached value,
\* without consulting the limiter and without invoking the remote call.
C4_FreshEntryServed ==
  /\ \A i \in InFlight : ops[i].cached = Undefined
  /\ (Finished /\ done.name \in Fetches /\ done.cached # Undefined) =>
        /\ done.outcome = "returned"
        /\ done.value = done.cached
        /\ done.remoteCalls = 0
        /\ done.limiterChecks = 0

\* C5: a fetch on a cold cache that succeeds, followed by an identical fetch within
\* the TTL: across both, the remote call is invoked exactly once and the limiter's
\* requestCount grows by exactly one.
C5_SecondFetchFree ==
  /\ \A i \in InFlight : ~ops[i].follows.cold
  /\ (Finished /\ done.follows.cold /\ done.windowStart = done.follows.windowStart) =>
        /\ done.follows.remoteCalls + done.remoteCalls = 1
        /\ done.countAfter = done.follows.countBefore + 1

\* C6: the retry wrapper invokes the remote call at most n times (n = 3 by
\* default) and stops at the first success; the limiter and the cache are
\* consulted once per operation, never again between attempts; when every attempt
\* fails, the operation surfaces the last attempt's error.
C6_BoundedRetry ==
  /\ \A i \in InFlight :
        /\ ops[i].remoteCalls <= AttemptsOf(ops[i].name)
        /\ ops[i].limiterChecks = 1
        /\ ops[i].cacheGets <= 1
  /\ Finished =>
        /\ done.remoteCalls <= AttemptsOf(done.name)
        /\ AttemptsOf(done.name) <= RetryDefault
        /\ done.limiterChecks = 1
        /\ done.cacheGets <= 1
        /\ done.remoteFailed =>
              /\ done.remoteCalls = AttemptsOf(done.name)
              /\ done.outcome = "threw"
              /\ done.error = HandleApiError(done.lastRaw)

C6_Witness ==
  /\ done.name = "fetchAllSleepData"
  /\ done.remoteFailed
  /\ done.remoteCalls = 3
  /\ done.limiterChecks = 1
  /\ done.cacheGets = 1
  /\ done.lastRaw = AxiosStatus(404)
  /\ done.error = ApiError("not_found", 404)

\* a step in which an operation ends
OperationEnds == done'.id # done.id

\* C7: when a governed fetch returns after a cache miss and a successful remote
\* call, the result is in the cache under the operation's key with the
\* operation's TTL, and the value returned is the value cached.
C7_ResultCachedBeforeReturn ==
  [][ (OperationEnds /\ done'.name \in Fetches /\ done'.outcome = "returned")
        => /\ done'.remoteCalls >= 1
           /\ done'.cacheSets = 1
           /\ DefaultKeyOf(done'.name) \in DOMAIN cache'
           /\ cache'[DefaultKeyOf(done'.name)] =
                [v |-> done'.value, t |-> now + FetchTtl * 1000] ]_vars

C7_Witness ==
  /\ done.name = "fetchUserSleepData"
  /\ done.outcome = "returned"
  /\ done.cached = Undefined
  /\ done.value = "d2"
  /\ DefaultKeyOf(done.name) \in DOMAIN cache
  /\ cache[DefaultKeyOf(done.name)] = [v |-> "d2", t |-> now + FetchTtl * 1000]

\* C8: every failure that leaves a governed operation is a typed error: an ApiError,
\* a NetworkError or an AuthError whose type is one of the fixed set; no raw error
\* escapes, and no exception raised inside the operation becomes a normal return.
C8_FailuresAreTyped ==
  Finished =>
    /\ done.outcome \in {"returned", "threw"}
    /\ done.raised => done.outcome = "threw"
    /\ done.outcome = "threw" =>
          /\ done.error.class \in ErrorClasses
          /\ done.error.type \in ErrorTypes
          /\ done.error.class = "NetworkError" => done.error.type = "network_error"
          /\ done.error.class = "AuthError" => done.error.type = "auth_error"
    /\ done.outcome = "returned" => done.error = NoError

C8_Witness ==
  /\ done.outcome = "threw"
  /\ done.lastRaw = PlainError
  /\ done.remoteFailed
  /\ done.error = ApiError("unknown_error", 500)

C28_AuthNeverRetried ==
  /\ \A i \in InFlight : ~ops[i].sawAuth
  /\ (Finished /\ done.sawAuth) =>
        /\ done.remoteCalls = 1
        /\ done.outcome = "threw"
        /\ done.error = AuthError

\* C29: a remote call that fails by timeout or connection abort (code
\* ECONNABORTED, no HTTP response) leaves the operation as NetworkError, whether
\* or not the transport marks the error as its own.
C29_TimeoutIsNetworkError ==
  (Finished /\ done.remoteFailed /\ done.lastRaw.code = "ECONNABORTED"
     /\ done.lastRaw.status = Null)
    => /\ done.outcome = "threw"
       /\ done.error = NetworkError

\* validateCacheKey(key) returns for the key the call builds
KeyIsValid(name) ==
  ValidateCacheKey([type |-> "string", chars |-> CacheKeyOf(name)]) = Undefined

\* C30: every cache key a governed operation passes to the cache's get or set
\* satisfies validateCacheKey: a call whose input gives an invalid key is rejected
\* before any cache access or remote call, and no entry with an invalid key is
\* stored.
C30_KeysValidated ==
  /\ \A i \in InFlight :
        (ops[i].cacheGets + ops[i].cacheSets + ops[i].remoteCalls > 0
           /\ ops[i].name \in Fetches)
          => KeyIsValid(ops[i].name)
  /\ (Finished /\ done.name \in Fetches /\ ~KeyIsValid(done.name)) =>
        /\ done.cacheGets = 0
        /\ done.cacheSets = 0
        /\ done.remoteCalls = 0
        /\ done.outcome = "threw"
  /\ \A k \in DOMAIN written :
        ValidateCacheKey([type |-> "string", chars |-> written[k].key]) = Undefined

\* C31: with several governed operations in flight at once, no limiter update is
\* lost: requestCount is the number of checks allowed in the current window,
\* successfulRequests the number allowed since the statistics were last zeroed,
\* and no window allows more than maxRequestsPerMinute checks.
C31_NoLostUpdate ==
  /\ rateLimiterState.requestCount = sinceReset.allowedInWindow
  /\ rateLimiterState.stats.successfulRequests = sinceReset.allowedSinceStats
  /\ sinceReset.allowedInWindow <= config.maxRequestsPerMinute

\* two operations are awaiting their remote calls, both allowed in this window
C31_Witness ==
  /\ \A i \in 1..MaxInFlight : ops[i] # Idle /\ ops[i].pc = "awaiting"
  /\ MaxInFlight >= 2
  /\ sinceReset.allowedInWindow = 2
  /\ rateLimiterState.requestCount = 2

\* a step in which a remote call of an operation in flight is rejected and tried
\* again
IsRetryStep ==
  \E i \in 1..MaxInFlight :
    /\ ops[i] # Idle
    /\ ops'[i] # Idle
    /\ ops'[i].id = ops[i].id
    /\ ops'[i].remoteCalls = ops[i].remoteCalls + 1

\* C38: when a governed fetch ends in an error because its remote call failed, on
\* its only or on every attempt, the cache is left as it was: no entry is created
\* or overwritten under the fetch's key and the sets counter does not change.
C38_FailedFetchLeavesCache ==
  [][ /\ (OperationEnds /\ done'.name \in Fetches /\ done'.remoteFailed) =>
           /\ done'.outcome = "threw"
           /\ done'.cacheSets = 0
           /\ cache' = cache
           /\ cacheStats' = cacheStats
      /\ IsRetryStep => (cache' = cache /\ cacheStats' = cacheStats)
    ]_vars

\* fetchAllSleepData failed on all three attempts while the entry an earlier
\* fetchAllSleepData had stored was live: the entry still holds d1
C38_Witness ==
  /\ done.name = "fetchAllSleepData"
  /\ done.remoteFailed
  /\ done.remoteCalls = 3
  /\ done.cached = "d1"
  /\ cacheStats.sets = 1
  /\ DefaultKeyOf(done.name) \in DOMAIN cache
  /\ cache[DefaultKeyOf(done.name)].v = "d1"

\* C39: a batchDeleteSleepData call rejected because the confirmation flag is
\* missing leaves the limiter untouched: requestCount and the limiter's stats are
\* the same after the call as before it.
C39_RejectedDeletionLeavesLimiter ==
  [][ ( /\ OperationEnds
        /\ done'.name = "batchDeleteSleepData"
        /\ done'.error = ApiError("confirmation_required", 400) ) =>
          /\ rateLimiterState'.requestCount = rateLimiterState.requestCount
          /\ rateLimiterState'.stats = rateLimiterState.stats
    ]_vars

=============================================================================
